---- MODULE Spec2Model ----
(***************************************************************************)
(* Model of the RAG question-answering service of main.py: the chunker,    *)
(* the upload handler with its duplicate check, and the ask handler.       *)
(* Text is a sequence of one-character strings.                            *)
(***************************************************************************)
EXTENDS Integers, Sequences, FiniteSets, TLC

(* ------------------------------------------------------------------ *)
(* Bounds of the chunker specification                                 *)
(* ------------------------------------------------------------------ *)
MaxTextLen == 5
MaxMaxLen == 4

ChunkAlphabet == {"a", " ", "."}

(* ------------------------------------------------------------------ *)
(* String helpers (Python str semantics)                               *)
(* ------------------------------------------------------------------ *)
IsSpace(c) == c \in {" ", "\n"}

NonSpace(s) == { i \in 1..Len(s) : ~IsSpace(s[i]) }

Least(S) == CHOOSE i \in S : \A j \in S : i <= j
Greatest(S) == 0 - Least({ 0 - i : i \in S })

\* str.lstrip(): leading whitespace removed
LStrip(s) ==
  LET kept == NonSpace(s)
  IN IF kept = {} THEN <<>> ELSE SubSeq(s, Least(kept), Len(s))

\* str.strip(): surrounding whitespace removed
Strip(s) ==
  LET kept == NonSpace(s)
  IN IF kept = {} THEN <<>> ELSE SubSeq(s, Least(kept), Greatest(kept))

\* the places of the separator
DotPlaces(text) == { i \in 1..Len(text) : text[i] = "." }

\* the j-th of the places `dots` (0 before the first, `past` after the last)
DotPlace(dots, past, j) ==
  IF j = 0 THEN 0
  ELSE IF j > Cardinality(dots) THEN past
  ELSE CHOOSE i \in dots : Cardinality({ d \in dots : d <= i }) = j

\* text.split("."): the fragments between the separators; always at least one
Split(text) ==
  LET dots == DotPlaces(text)
  IN [ j \in 1..(Cardinality(dots) + 1) |->
         SubSeq(text, DotPlace(dots, Len(text) + 1, j - 1) + 1,
                      DotPlace(dots, Len(text) + 1, j) - 1) ]

(* ------------------------------------------------------------------ *)
(* chunk_text                                                          *)
(* ------------------------------------------------------------------ *)
\* a condition that forgets nothing but admits one fragment too many
FitsInclusive(current, s, max_len) == Len(current) + Len(s) <= max_len

\* the test of the loop: the fragment joins the running buffer
Fits(current, s, max_len) == Len(current) + Len(s) < max_len

\* a buffer restarted without the fragment that caused the flush
StartNewDropping(s) == <<".">>

\* the buffer a flush starts: the fragment and its terminator
StartNew(s) == s \o <<".">>

\* chunks.append(current.strip())
Flush(chunks, current) == Append(chunks, Strip(current))

RECURSIVE ChunkLoop(_, _, _, _, _)
ChunkLoop(sentences, i, chunks, current, max_len) ==
  IF i > Len(sentences)
  THEN IF current # <<>> THEN Flush(chunks, current) ELSE chunks
  ELSE IF Fits(current, sentences[i], max_len)
       THEN ChunkLoop(sentences, i + 1, chunks,
                      current \o sentences[i] \o <<".">>, max_len)
       ELSE ChunkLoop(sentences, i + 1, Flush(chunks, current),
                      StartNew(sentences[i]), max_len)

chunk_text(text, max_len) == ChunkLoop(Split(text), 1, <<>>, <<>>, max_len)

(* ------------------------------------------------------------------ *)
(* Bounds and program constants of the service specification           *)
(* ------------------------------------------------------------------ *)
NumReq == 2
MaxPrior == 10

DefaultMaxLen == 1500
ScrollLimit == 10
SearchLimit == 3

Requests == 1..NumReq

(* ------------------------------------------------------------------ *)
(* Bytes, UTF-8 and the content hash                                   *)
(* ------------------------------------------------------------------ *)
Chars == {"A", "B", "C", " ", ".", "\n"}

Ord(c) ==
  CASE c = "A" -> 65 [] c = "B" -> 66 [] c = "C" -> 67
    [] c = " " -> 32 [] c = "." -> 46 [] c = "\n" -> 10

Chr(b) == CHOOSE c \in Chars : Ord(c) = b

\* str.encode(): the UTF-8 bytes of a text
Encode(text) == [i \in 1..Len(text) |-> Ord(text[i])]

\* bytes.decode("utf-8"): fails on a byte that is no UTF-8 (here 255)
Decodable(bytes) == \A i \in 1..Len(bytes) : bytes[i] < 128
Decode(bytes) == [i \in 1..Len(bytes) |-> Chr(bytes[i])]

\* the digest of a byte string (MD5 stands behind it: deterministic, and
\* without collisions on the texts of the model): a polynomial in the bytes
DigestModulus == 32749
DigestBase == 131

RECURSIVE DigestPower(_)
DigestPower(n) ==
  IF n = 0 THEN 1
  ELSE IF n % 2 = 0
       THEN LET half == DigestPower(n \div 2)
            IN (half * half) % DigestModulus
       ELSE (DigestPower(n - 1) * DigestBase) % DigestModulus

RECURSIVE DigestRange(_, _, _)
DigestRange(bytes, lo, hi) ==
  IF lo > hi THEN 0
  ELSE IF lo = hi THEN bytes[lo] % DigestModulus
  ELSE LET mid == (lo + hi) \div 2
       IN (DigestRange(bytes, lo, mid) * DigestPower(hi - mid)
             + DigestRange(bytes, mid + 1, hi)) % DigestModulus

Digest(bytes) ==
  (DigestPower(Len(bytes)) * 7 + DigestRange(bytes, 1, Len(bytes))) % DigestModulus

compute_hash(content) == Digest(Encode(content))

(* ------------------------------------------------------------------ *)
(* extract_text                                                        *)
(* ------------------------------------------------------------------ *)
EndsWith(s, suffix) ==
  /\ Len(s) >= Len(suffix)
  /\ SubSeq(s, Len(s) - Len(suffix) + 1, Len(s)) = suffix

DotTxt == <<".", "t", "x", "t">>
DotPdf == <<".", "p", "d", "f">>
DotCsv == <<".", "c", "s", "v">>

RECURSIVE PdfText(_)
PdfText(pages) ==
  IF pages = <<>> THEN <<>>
  ELSE Head(pages) \o <<"\n">> \o PdfText(Tail(pages))

\* an extractor that reads every upload as plain text
extract_text_any(file) ==
  IF Decodable(file.body)
  THEN [kind |-> "text", text |-> Decode(file.body)]
  ELSE [kind |-> "http_500", text |-> <<>>]

extract_text(file) ==
  IF EndsWith(file.filename, DotTxt)
  THEN IF Decodable(file.body)
       THEN [kind |-> "text", text |-> Decode(file.body)]
       ELSE [kind |-> "http_500", text |-> <<>>]
  ELSE IF EndsWith(file.filename, DotPdf)
       THEN [kind |-> "text", text |-> PdfText(file.pages)]
       ELSE [kind |-> "http_400", text |-> <<>>]

(* ------------------------------------------------------------------ *)
(* The embedding model and the vector store                            *)
(* ------------------------------------------------------------------ *)
Dims == <<"A", "B", "C", " ", ".", "\n">>

Count(text, c) == Cardinality({i \in 1..Len(text) : text[i] = c})

\* embedder.encode of one text: a fixed-length vector, the same for the same
\* text (here the count of each character, saturating)
Saturate(n) == IF n > 12 THEN 12 ELSE n

Embed(text) == [d \in 1..Len(Dims) |-> Saturate(Count(text, Dims[d]))]

RECURSIVE DotFrom(_, _, _)
DotFrom(u, v, d) ==
  IF d > Len(u) THEN 0 ELSE u[d] * v[d] + DotFrom(u, v, d + 1)

Dot(u, v) == DotFrom(u, v, 1)

\* cos(q, u) > cos(q, v), for vectors without negative components
MoreSimilar(q, u, v) ==
  IF Dot(v, v) = 0 THEN Dot(u, u) > 0 /\ Dot(q, u) > 0
  ELSE IF Dot(u, u) = 0 THEN FALSE
  ELSE Dot(q, u) * Dot(q, u) * Dot(v, v) > Dot(q, v) * Dot(q, v) * Dot(u, u)

Min(a, b) == IF a < b THEN a ELSE b

\* the point built for chunk i of a document (its id is its place in the
\* collection, which is kept in id order)
Point(chunks, embeddings, file_hash, i) ==
  [text |-> chunks[i], file_hash |-> file_hash, vector |-> embeddings[i]]

\* the points of a loop that stops one chunk early
PointsButLast(chunks, embeddings, file_hash) ==
  [i \in 1..(Len(chunks) - 1) |-> Point(chunks, embeddings, file_hash, i)]

\* one point for every chunk
Points(chunks, embeddings, file_hash) ==
  [i \in 1..Len(chunks) |-> Point(chunks, embeddings, file_hash, i)]

InsertAt(coll, p, pt) ==
  SubSeq(coll, 1, p - 1) \o <<pt>> \o SubSeq(coll, p, Len(coll))

\* qdrant.upsert of points with fresh uuid4 ids: every point lands at a place
\* of the id order that the random id decides
RECURSIVE Upserted(_, _)
Upserted(coll, points) ==
  IF points = <<>> THEN {coll}
  ELSE UNION { Upserted(InsertAt(coll, p, Head(points)), Tail(points)) :
               p \in 1..(Len(coll) + 1) }

\* qdrant.scroll(collection_name, with_payload=True): the first page, of the
\* default page size, in id order; the next-page offset is dropped
Scroll(coll) == SubSeq(coll, 1, Min(ScrollLimit, Len(coll)))

\* any(pt.payload.get("file_hash") == file_hash for pt in points)
AlreadyStored(points, file_hash) ==
  \E i \in 1..Len(points) : points[i].file_hash = file_hash

\* the places among `left` that hold a record no other place of `left` beats
Nearest(coll, q_emb, left) ==
  { i \in left : \A o \in left :
      ~MoreSimilar(q_emb, coll[o].vector, coll[i].vector) }

RECURSIVE TakeNearest(_, _, _, _)
TakeNearest(coll, q_emb, left, k) ==
  IF k = 0 \/ left = {} THEN { <<>> }
  ELSE UNION { { <<coll[i]>> \o rest :
                   rest \in TakeNearest(coll, q_emb, left \ {i}, k - 1) } :
               i \in Nearest(coll, q_emb, left) }

\* qdrant.search(query_vector, limit): the limit nearest records by cosine
\* similarity, most similar first, fewer when the collection holds fewer;
\* records of equal similarity come in either order
Search(coll, q_emb, limit) ==
  TakeNearest(coll, q_emb, 1..Len(coll), limit)

\* a test that never takes the empty branch
NoHitsNever(search) == FALSE

\* if not search
NoHits(search) == search = <<>>

\* "\n".join(texts)
RECURSIVE JoinLines(_)
JoinLines(texts) ==
  IF texts = <<>> THEN <<>>
  ELSE IF Len(texts) = 1 THEN Head(texts)
  ELSE Head(texts) \o <<"\n">> \o JoinLines(Tail(texts))

\* a context that joins the hits last to first
ContextReversed(hits) ==
  JoinLines([j \in 1..Len(hits) |-> hits[Len(hits) + 1 - j].text])

\* "\n".join([hit.payload.get("text", "") for hit in search])
Context(hits) == JoinLines([j \in 1..Len(hits) |-> hits[j].text])

(* ------------------------------------------------------------------ *)
(* query_huggingface_chat                                              *)
(* ------------------------------------------------------------------ *)
NoContextAnswer ==
  <<"N", "o", " ", "r", "e", "l", "e", "v", "a", "n", "t", " ",
    "c", "o", "n", "t", "e", "x", "t", " ", "f", "o", "u", "n", "d", ".">>

\* what the chat endpoint may do with one request: reply, answer with a body
\* that holds no choices, or be unreachable
ChatOutcomes ==
  { [kind |-> "reply", status_code |-> <<"2", "0", "0">>, text |-> <<" ", "B", "\n">>],
    [kind |-> "malformed", status_code |-> <<"5", "0", "3">>, text |-> <<"B">>],
    [kind |-> "unreachable", status_code |-> <<>>, text |-> <<>>] }

\* the value query_huggingface_chat returns for an outcome that returns
ChatAnswer(outcome) ==
  IF outcome.kind = "reply" THEN Strip(outcome.text)
  ELSE <<"E", "r", "r", "o", "r", ":", " ">> \o outcome.status_code
         \o <<" ", "-", " ">> \o outcome.text

(* ------------------------------------------------------------------ *)
(* Inputs                                                              *)
(* ------------------------------------------------------------------ *)
TextABC == <<"A", ".", " ", "B", ".", " ", "C", ".">>
TextA == <<"A", "\n">>

\* a document of two chunks: a fragment that just fits, and a short one
TextLong == [i \in 1..(DefaultMaxLen - 1) |-> "C"] \o <<".", "A">>

NoFile == [filename |-> <<>>, body |-> <<>>, pages |-> <<>>]

Files ==
  { [filename |-> <<"a">> \o DotTxt, body |-> Encode(TextABC), pages |-> <<>>],
    [filename |-> <<"b">> \o DotTxt, body |-> Encode(TextA), pages |-> <<>>],
    [filename |-> <<"c">> \o DotPdf, body |-> <<>>, pages |-> << <<"A">> >>],
    [filename |-> <<"d">> \o DotCsv, body |-> Encode(TextABC), pages |-> <<>>],
    [filename |-> <<"e">> \o DotTxt, body |-> <<255>>, pages |-> <<>>] }

\* uploads of a document that does not fit one chunk, and of files that are refused
LongFiles ==
  { [filename |-> <<"l">> \o DotTxt, body |-> Encode(TextLong), pages |-> <<>>],
    [filename |-> <<"d">> \o DotCsv, body |-> Encode(TextLong), pages |-> <<>>],
    [filename |-> <<"e">> \o DotTxt, body |-> <<255>>, pages |-> <<>>] }

Questions == { <<"A", " ", "C">> }

\* the documents an earlier run of the service stored: document j is j times "C"
PriorDoc(j) == [i \in 1..j |-> "C"]

PriorPoint(j) ==
  LET chunks == chunk_text(PriorDoc(j), DefaultMaxLen)
  IN Point(chunks, [i \in 1..Len(chunks) |-> Embed(chunks[i])],
           compute_hash(PriorDoc(j)), 1)

\* the collection the service finds when it starts (it reuses one that exists)
Prior(k) == [j \in 1..k |-> PriorPoint(j)]

\* empty, smaller than a search, and as large as MaxPrior
PriorSizes == {0, 2, MaxPrior}

(* ------------------------------------------------------------------ *)
(* State                                                               *)
(* ------------------------------------------------------------------ *)
VARIABLES collection, req, loop, arrived, ctext, cmax, cout, cpc

vars == <<collection, req, loop, arrived, ctext, cmax, cout, cpc>>
svars == <<collection, req, loop, arrived>>
cvars == <<ctext, cmax, cout, cpc>>

NoResp == [kind |-> "none", n |-> 0, answer |-> <<>>, context |-> <<>>]

Http(kind) == [kind |-> kind, n |-> 0, answer |-> <<>>, context |-> <<>>]

NoChat == [called |-> FALSE, question |-> <<>>, context |-> <<>>]

Idle ==
  [op |-> "none", pc |-> "idle", file |-> NoFile, question |-> <<>>,
   text |-> <<>>, file_hash |-> 0, chunks |-> <<>>, embeddings |-> <<>>,
   q_emb |-> <<>>, hits |-> <<>>, context |-> <<>>, chat |-> NoChat,
   calls |-> {}, resp |-> NoResp]

\* the handlers are coroutines without an await: a handler that has started
\* keeps the event loop until it returns
Awaits(step) == FALSE

CanRun(r) == loop = 0 \/ loop = r

Holds(r, step) == IF step = "done" \/ Awaits(step) THEN 0 ELSE r

InitService ==
  /\ collection \in { Prior(k) : k \in PriorSizes }
  /\ req = [r \in Requests |-> Idle]
  /\ loop = 0
  /\ arrived = 0

InitChunkIdle ==
  /\ ctext = <<>>
  /\ cmax = 0
  /\ cout = <<>>
  /\ cpc = "off"

Init == InitService /\ InitChunkIdle

(* ------------------------------------------------------------------ *)
(* Requests arrive                                                     *)
(* ------------------------------------------------------------------ *)
Queued(f) == [Idle EXCEPT !.op = "upload", !.pc = "queued", !.file = f]

ArriveUploadOf(r, files) ==
  /\ arrived = r - 1
  /\ \E f \in files : req' = [req EXCEPT ![r] = Queued(f)]
  /\ arrived' = r
  /\ UNCHANGED <<collection, loop, cvars>>

ArriveUpload(r) == ArriveUploadOf(r, Files)

ArriveLong(r) == ArriveUploadOf(r, LongFiles)

ArriveAsk(r) ==
  /\ arrived = r - 1
  /\ \E q \in Questions :
       req' = [req EXCEPT ![r] = [Idle EXCEPT !.op = "ask", !.pc = "queued",
                                               !.question = q]]
  /\ arrived' = r
  /\ UNCHANGED <<collection, loop, cvars>>

(* ------------------------------------------------------------------ *)
(* upload_file                                                         *)
(* ------------------------------------------------------------------ *)
\* text = extract_text(file); file_hash = compute_hash(text)
UploadExtract(r) ==
  /\ req[r].op = "upload" /\ req[r].pc = "queued" /\ CanRun(r)
  /\ LET x == extract_text(req[r].file)
     IN IF x.kind = "text"
        THEN /\ req' = [req EXCEPT ![r] = [@ EXCEPT !.pc = "dedup",
                                                    !.text = x.text,
                                                    !.file_hash = compute_hash(x.text)]]
             /\ loop' = Holds(r, "dedup")
        ELSE /\ req' = [req EXCEPT ![r] = [@ EXCEPT !.pc = "done",
                                                    !.resp = Http(x.kind)]]
             /\ loop' = Holds(r, "done")
  /\ UNCHANGED <<collection, arrived, cvars>>

\* points, _ = qdrant.scroll(...); if any(...): return already processed
UploadDedup(r) ==
  /\ req[r].op = "upload" /\ req[r].pc = "dedup" /\ CanRun(r)
  /\ \E fails \in BOOLEAN :
       LET called == req[r].calls \cup {"scroll"}
       IN IF fails
          THEN /\ req' = [req EXCEPT ![r] = [@ EXCEPT !.pc = "done",
                            !.calls = called, !.resp = Http("http_500")]]
               /\ loop' = Holds(r, "done")
          ELSE IF AlreadyStored(Scroll(collection), req[r].file_hash)
          THEN /\ req' = [req EXCEPT ![r] = [@ EXCEPT !.pc = "done",
                            !.calls = called, !.resp = Http("already_processed")]]
               /\ loop' = Holds(r, "done")
          ELSE /\ req' = [req EXCEPT ![r] = [@ EXCEPT !.pc = "embed",
                            !.calls = called]]
               /\ loop' = Holds(r, "embed")
  /\ UNCHANGED <<collection, arrived, cvars>>

\* chunks = chunk_text(text); embeddings = embedder.encode(chunks).tolist()
UploadEmbed(r) ==
  /\ req[r].op = "upload" /\ req[r].pc = "embed" /\ CanRun(r)
  /\ \E fails \in BOOLEAN :
       LET called == req[r].calls \cup {"encode"}
           chunks == chunk_text(req[r].text, DefaultMaxLen)
       IN IF fails
          THEN /\ req' = [req EXCEPT ![r] = [@ EXCEPT !.pc = "done",
                            !.chunks = chunks,
                            !.calls = called, !.resp = Http("http_500")]]
               /\ loop' = Holds(r, "done")
          ELSE /\ req' = [req EXCEPT ![r] = [@ EXCEPT !.pc = "upsert",
                            !.chunks = chunks,
                            !.embeddings = [i \in 1..Len(chunks) |-> Embed(chunks[i])],
                            !.calls = called]]
               /\ loop' = Holds(r, "upsert")
  /\ UNCHANGED <<collection, arrived, cvars>>

\* qdrant.upsert(points=[...]); return the count of chunks stored
UploadUpsert(r) ==
  /\ req[r].op = "upload" /\ req[r].pc = "upsert" /\ CanRun(r)
  /\ \E fails \in BOOLEAN :
       LET called == req[r].calls \cup {"upsert"}
       IN IF fails
          THEN /\ req' = [req EXCEPT ![r] = [@ EXCEPT !.pc = "done",
                            !.calls = called, !.resp = Http("http_500")]]
               /\ collection' = collection
          ELSE /\ req' = [req EXCEPT ![r] = [@ EXCEPT !.pc = "done",
                            !.calls = called,
                            !.resp = [Http("stored") EXCEPT !.n = Len(req[r].chunks)]]]
               /\ collection' \in Upserted(collection,
                     Points(req[r].chunks, req[r].embeddings, req[r].file_hash))
  /\ loop' = Holds(r, "done")
  /\ UNCHANGED <<arrived, cvars>>

(* ------------------------------------------------------------------ *)
(* ask                                                                 *)
(* ------------------------------------------------------------------ *)
\* q_emb = embedder.encode(question).tolist()
AskEncode(r) ==
  /\ req[r].op = "ask" /\ req[r].pc = "queued" /\ CanRun(r)
  /\ \E fails \in BOOLEAN :
       LET called == req[r].calls \cup {"encode"}
       IN IF fails
          THEN /\ req' = [req EXCEPT ![r] = [@ EXCEPT !.pc = "done",
                            !.calls = called, !.resp = Http("http_500")]]
               /\ loop' = Holds(r, "done")
          ELSE /\ req' = [req EXCEPT ![r] = [@ EXCEPT !.pc = "search",
                            !.q_emb = Embed(req[r].question), !.calls = called]]
               /\ loop' = Holds(r, "search")
  /\ UNCHANGED <<collection, arrived, cvars>>

\* search = qdrant.search(..., limit=3); the empty answer; the context
AskSearch(r) ==
  /\ req[r].op = "ask" /\ req[r].pc = "search" /\ CanRun(r)
  /\ \E fails \in BOOLEAN :
       LET called == req[r].calls \cup {"search"}
       IN IF fails
          THEN /\ req' = [req EXCEPT ![r] = [@ EXCEPT !.pc = "done",
                            !.calls = called, !.resp = Http("http_500")]]
               /\ loop' = Holds(r, "done")
          ELSE \E search \in Search(collection, req[r].q_emb, SearchLimit) :
                 IF NoHits(search)
                 THEN /\ req' = [req EXCEPT ![r] = [@ EXCEPT !.pc = "done",
                                   !.calls = called,
                                   !.resp = [kind |-> "answer", n |-> 0,
                                             answer |-> NoContextAnswer,
                                             context |-> <<>>]]]
                      /\ loop' = Holds(r, "done")
                 ELSE /\ req' = [req EXCEPT ![r] = [@ EXCEPT !.pc = "chat",
                                   !.calls = called, !.hits = search,
                                   !.context = Context(search)]]
                      /\ loop' = Holds(r, "chat")
  /\ UNCHANGED <<collection, arrived, cvars>>

\* answer = query_huggingface_chat(question, context); return both
AskChat(r) ==
  /\ req[r].op = "ask" /\ req[r].pc = "chat" /\ CanRun(r)
  /\ \E outcome \in ChatOutcomes :
       LET called == req[r].calls \cup {"chat"}
           sent == [called |-> TRUE, question |-> req[r].question,
                    context |-> req[r].context]
       IN IF outcome.kind = "unreachable"
          THEN req' = [req EXCEPT ![r] = [@ EXCEPT !.pc = "done",
                         !.calls = called, !.chat = sent,
                         !.resp = Http("http_500")]]
          ELSE req' = [req EXCEPT ![r] = [@ EXCEPT !.pc = "done",
                         !.calls = called, !.chat = sent,
                         !.resp = [kind |-> "answer", n |-> 0,
                                   answer |-> ChatAnswer(outcome),
                                   context |-> req[r].context]]]
  /\ loop' = Holds(r, "done")
  /\ UNCHANGED <<collection, arrived, cvars>>

Next ==
  \E r \in Requests :
    \/ ArriveUpload(r)
    \/ ArriveAsk(r)
    \/ UploadExtract(r)
    \/ UploadDedup(r)
    \/ UploadEmbed(r)
    \/ UploadUpsert(r)
    \/ AskEncode(r)
    \/ AskSearch(r)
    \/ AskChat(r)

Spec == Init /\ [][Next]_vars

(* ------------------------------------------------------------------ *)
(* Uploads of documents of more than one chunk                         *)
(* ------------------------------------------------------------------ *)
InitLong ==
  /\ collection \in { Prior(k) : k \in {0, 2} }
  /\ req = [r \in Requests |-> Idle]
  /\ loop = 0
  /\ arrived = 0
  /\ InitChunkIdle

NextLong ==
  \E r \in Requests :
    \/ ArriveLong(r)
    \/ UploadExtract(r)
    \/ UploadDedup(r)
    \/ UploadEmbed(r)
    \/ UploadUpsert(r)

SpecLong == InitLong /\ [][NextLong]_vars

(* ------------------------------------------------------------------ *)
(* Uploads of one file that are all in flight together                 *)
(* ------------------------------------------------------------------ *)
InitTogether ==
  /\ collection \in { Prior(k) : k \in PriorSizes }
  /\ \E f \in Files : req = [r \in Requests |-> Queued(f)]
  /\ loop = 0
  /\ arrived = NumReq
  /\ InitChunkIdle

NextTogether ==
  \E r \in Requests :
    \/ UploadExtract(r)
    \/ UploadDedup(r)
    \/ UploadEmbed(r)
    \/ UploadUpsert(r)

SpecTogether == InitTogether /\ [][NextTogether]_vars

(* ------------------------------------------------------------------ *)
(* The chunker on its own: every text and every maximum of the bounds  *)
(* ------------------------------------------------------------------ *)
ChunkTexts ==
  UNION { [1..n -> ChunkAlphabet] : n \in 0..MaxTextLen }

InitServiceIdle ==
  /\ collection = <<>>
  /\ req = [r \in Requests |-> Idle]
  /\ loop = 0
  /\ arrived = 0

InitChunk ==
  /\ InitServiceIdle
  /\ ctext \in ChunkTexts
  /\ cmax \in 1..MaxMaxLen
  /\ cout = <<>>
  /\ cpc = "call"

ChunkCall ==
  /\ cpc = "call"
  /\ cout' = chunk_text(ctext, cmax)
  /\ cpc' = "returned"
  /\ UNCHANGED <<ctext, cmax, svars>>

NextChunk == ChunkCall

SpecChunk == InitChunk /\ [][NextChunk]_vars

(* ------------------------------------------------------------------ *)
(* Properties of chunk_text                                            *)
(* ------------------------------------------------------------------ *)
Front(s) == SubSeq(s, 1, Len(s) - 1)

\* the fragments a chunk holds: one for every "." of it (text after the last
\* "." would be one more)
Fragments(chunk) ==
  LET parts == Split(chunk)
  IN IF parts[Len(parts)] = <<>> THEN Front(parts) ELSE parts

RECURSIVE Unchunk(_)
Unchunk(chunks) ==
  IF chunks = <<>> THEN <<>>
  ELSE Fragments(Head(chunks)) \o Unchunk(Tail(chunks))

\* the places, in the fragment sequence, of the first fragment of every chunk
ChunkStarts(chunks) ==
  { Len(Unchunk(SubSeq(chunks, 1, m - 1))) + 1 : m \in 1..Len(chunks) }

SingleLongFragment(chunk, max_len) ==
  /\ Len(Fragments(chunk)) = 1
  /\ Len(Fragments(chunk)[1]) >= max_len

\* C2 as stated: every chunk is strictly shorter than max_len, except a chunk
\* of a single fragment that is itself at least max_len long.
C2_StrictlyBelowMax ==
  cpc = "returned" =>
    \A i \in 1..Len(cout) :
      Len(cout[i]) < cmax \/ SingleLongFragment(cout[i], cmax)

\* C2 amended: every chunk has length at most max_len (the "." appended after
\* the last fragment that fits is not counted by the test), except a chunk of
\* a single fragment that is itself at least max_len long.
C2_AtMostMax ==
  cpc = "returned" =>
    \A i \in 1..Len(cout) :
      Len(cout[i]) <= cmax \/ SingleLongFragment(cout[i], cmax)

\* a chunk of several fragments, each shorter than max_len, of length max_len
C2_Witness ==
  /\ cpc = "returned"
  /\ \E i \in 1..Len(cout) :
       /\ Len(cout[i]) = cmax
       /\ Len(Fragments(cout[i])) >= 2

\* C3: every element chunk_text returns is a non-empty string.
C3_ChunksNonEmpty ==
  cpc = "returned" => \A i \in 1..Len(cout) : cout[i] # <<>>

\* C5: the fragments of the text appear in the chunks once each and in their
\* order: with the "." after each fragment removed, the chunks in output order
\* hold the fragment sequence of the text, the first fragment of every chunk
\* without its leading whitespace and every other fragment unchanged.
C5_RoundTrip ==
  cpc = "returned" =>
    LET F == Split(ctext)
        G == Unchunk(cout)
    IN /\ Len(G) = Len(F)
       /\ \A i \in 1..Len(F) :
            G[i] = IF i \in ChunkStarts(cout) THEN LStrip(F[i]) ELSE F[i]

\* a text cut into several chunks, one of which lost leading whitespace
C5_Witness ==
  /\ cpc = "returned"
  /\ Len(cout) >= 2
  /\ Len(Split(ctext)) >= 3
  /\ \E i \in ChunkStarts(cout) :
       i > 1 /\ i <= Len(Split(ctext)) /\ Split(ctext)[i] # LStrip(Split(ctext)[i])

(* ------------------------------------------------------------------ *)
(* Properties of the service                                           *)
(* ------------------------------------------------------------------ *)
CountHash(coll, h) == Cardinality({ i \in 1..Len(coll) : coll[i].file_hash = h })

InFlight(r) == req[r].pc \in {"dedup", "embed", "upsert", "search", "chat"}

Failed(kind) == kind \in {"http_400", "http_500"}

\* C1: an upload whose text is that of a document stored before answers
\* "File already processed" and stores nothing, whatever the collection holds
\* besides (unless the vector store itself fails the request).
C1_DuplicateRejected ==
  [][\A r \in Requests :
       ( /\ req[r].op = "upload" /\ req[r].pc = "dedup"
         /\ CountHash(collection, req[r].file_hash) > 0
         /\ req'[r].pc # "dedup"
         /\ req'[r].resp.kind # "http_500" )
       => ( /\ req'[r].pc = "done"
            /\ req'[r].resp.kind = "already_processed"
            /\ collection' = collection )]_vars

\* C4: for a document of one chunk, upload then ask gives as context the text
\* of the document trimmed, nothing added, and the chat model gets that context.
C4_ContextIsDocument ==
  \A u \in Requests : \A a \in Requests :
    ( /\ req[u].op = "upload" /\ req[u].resp.kind = "stored" /\ req[u].resp.n = 1
      /\ req[a].op = "ask" /\ req[a].resp.kind = "answer"
      /\ Len(req[a].hits) = 1
      /\ req[a].hits[1].file_hash = req[u].file_hash )
    => ( /\ req[a].resp.context = Strip(req[u].text)
         /\ req[a].chat.called
         /\ req[a].chat.context = Strip(req[u].text)
         /\ req[a].chat.question = req[a].question )

\* C6: an ask whose search returns no record answers "No relevant context
\* found." with the empty context and sends nothing to the chat model; a chat
\* request is only sent when at least one record was retrieved.
C6_EmptyRetrieval ==
  \A r \in Requests :
    req[r].op = "ask" =>
      /\ ( req[r].pc = "chat" \/ req[r].chat.called \/ "chat" \in req[r].calls )
           => req[r].hits # <<>>
      /\ ( req[r].pc = "done" /\ req[r].resp.kind = "answer" /\ req[r].hits = <<>> )
           => ( /\ req[r].resp.answer = NoContextAnswer
                /\ req[r].resp.context = <<>>
                /\ ~req[r].chat.called
                /\ "chat" \notin req[r].calls )

\* an ask answered from the empty collection
C6_Witness ==
  \E r \in Requests :
    /\ req[r].op = "ask" /\ req[r].pc = "done"
    /\ collection = <<>>
    /\ req[r].calls = {"encode", "search"}
    /\ req[r].resp.answer = NoContextAnswer

\* C7: on a collection that holds records, ask retrieves min(3, n) of them,
\* most similar first and none left out that is more similar, its context is
\* their texts joined by newlines in that order, the chat model gets that
\* context and the question, and the collection stays as it is.
C7_TopThreeInOrder ==
  [][\A r \in Requests :
       req[r].op = "ask" =>
         /\ ( req[r].pc = "search" /\ req'[r].pc = "chat" ) =>
              LET h == req'[r].hits
                  q == Embed(req[r].question)
              IN /\ Len(collection) >= 1
                 /\ Len(h) = IF Len(collection) < 3 THEN Len(collection) ELSE 3
                 /\ \A a \in 1..Len(h) : \A b \in 1..Len(h) :
                      a < b => ~MoreSimilar(q, h[b].vector, h[a].vector)
                 /\ \A a \in 1..Len(h) :
                      Cardinality({ b \in 1..Len(h) : h[b] = h[a] })
                        <= Cardinality({ i \in 1..Len(collection) : collection[i] = h[a] })
                 /\ \A i \in 1..Len(collection) :
                      (\A a \in 1..Len(h) : h[a] # collection[i]) =>
                        ~MoreSimilar(q, collection[i].vector, h[Len(h)].vector)
                 /\ req'[r].context = JoinLines([j \in 1..Len(h) |-> h[j].text])
         /\ ( req[r].pc = "chat" /\ req'[r].pc = "done" ) =>
              /\ req'[r].chat =
                   [called |-> TRUE, question |-> req[r].question,
                    context |-> req[r].context]
              /\ req'[r].resp.kind = "answer" =>
                   req'[r].resp.context = req[r].context
         /\ ( req[r].pc \in {"queued", "search", "chat"} /\ req'[r] # req[r] ) =>
              collection' = collection]_vars

\* an ask answered from three records of a larger collection, of unlike texts
C7_Witness ==
  \E r \in Requests :
    /\ req[r].op = "ask" /\ req[r].resp.kind = "answer"
    /\ Len(req[r].hits) = 3
    /\ Len(collection) > 3
    /\ req[r].hits[1].text # req[r].hits[3].text
    /\ req[r].chat.called

Unsupported(file) ==
  ~EndsWith(file.filename, DotTxt) /\ ~EndsWith(file.filename, DotPdf)

\* C8: an upload whose file name ends neither in .txt nor in .pdf is refused
\* with HTTP 400 as the first step: no call to the vector store, the embedder
\* or the chat model, and the collection stays as it is.
C8_UnsupportedRejected ==
  [][\A r \in Requests :
       ( /\ req[r].op = "upload" /\ req[r].pc = "queued"
         /\ Unsupported(req[r].file)
         /\ req'[r] # req[r] )
       => ( /\ req'[r].pc = "done"
            /\ req'[r].resp.kind = "http_400"
            /\ req'[r].calls = {}
            /\ ~req'[r].chat.called
            /\ collection' = collection )]_vars

\* a .csv upload that was refused
C8_Witness ==
  \E r \in Requests :
    /\ req[r].op = "upload" /\ req[r].pc = "done"
    /\ EndsWith(req[r].file.filename, DotCsv)
    /\ req[r].resp.kind = "http_400"

\* C9: a step of an upload that fails leaves the collection as it is; while an
\* upload is being handled the collection only changes by its own upsert,
\* which comes after every chunk was embedded and adds every chunk at once;
\* so the records of a document are all of its chunks or none.
C9_AllOrNothing ==
  [][\A r \in Requests :
       req[r].op = "upload" =>
         /\ ( req'[r].pc = "done" /\ req[r].pc # "done"
              /\ Failed(req'[r].resp.kind) ) => collection' = collection
         /\ ( InFlight(r) /\ collection' # collection ) =>
              /\ req[r].pc = "upsert"
              /\ req'[r].resp.kind = "stored"
              /\ Len(req[r].embeddings) = Len(req[r].chunks)
              /\ Len(collection') = Len(collection) + Len(req[r].chunks)
              /\ \A i \in 1..Len(req[r].chunks) :
                   \E p \in 1..Len(collection') :
                     /\ collection'[p].text = req[r].chunks[i]
                     /\ collection'[p].file_hash = req[r].file_hash
         /\ req'[r].chunks # <<>> =>
              CountHash(collection', req'[r].file_hash) % Len(req'[r].chunks) = 0]_vars

\* an upload of a document of two chunks whose embedding failed: nothing of it
\* is stored
C9_Witness ==
  \E r \in Requests :
    /\ req[r].op = "upload" /\ req[r].pc = "done"
    /\ req[r].resp.kind = "http_500"
    /\ req[r].calls = {"scroll", "encode"}
    /\ Len(req[r].chunks) >= 2
    /\ CountHash(collection, req[r].file_hash) = 0

\* C10: when uploads of one text are in flight together, the collection ends
\* up holding the chunks of the document once.
C10_StoredOnce ==
  \A r \in Requests :
    req[r].resp.kind = "stored" =>
      CountHash(collection, req[r].file_hash) = Len(req[r].chunks)
====
